---- MODULE Spec2Model ----
(***************************************************************************)
(* Model of darts.js: the Throw -> Player -> Game scoring state machine    *)
(* of a two-player 501 darts game and the controller's click handler.      *)
(*                                                                         *)
(* JavaScript values are tagged records: Undefined, Null, Str(chars) with  *)
(* chars a sequence of one-character strings, Num(n) and NaN.              *)
(***************************************************************************)
EXTENDS Integers, Sequences, FiniteSets, TLC

VARIABLES
  player,         \* Game.player: the two Players, keyed "one" and "two"
  currentPlayer,  \* Game.currentPlayer, as the key of the Player it refers to
  listening,      \* the click listeners are attached to the dartboard sections
  calls,          \* number of Game.addDart calls made so far
  turnCalls,      \* number of those since the Game was created or last switched
  thrw,           \* a Throw held on its own
  thrwCalls,      \* number of addDart calls made on thrw
  lastId          \* the identifier passed to the latest addDart call

vars ==
  <<player, currentPlayer, listening, calls, turnCalls, thrw, thrwCalls, lastId>>

----------------------------------------------------------------------------
(* JavaScript values                                                       *)

Undefined == [type |-> "undefined"]

Null == [type |-> "null"]

Str(s) == [type |-> "string", chars |-> s]

Num(n) == [type |-> "number", nan |-> FALSE, val |-> n]

NaN == [type |-> "number", nan |-> TRUE, val |-> 0]

\* !v : undefined, null, the empty string, 0 and NaN are falsy
Falsy(v) ==
  \/ v = Undefined
  \/ v = Null
  \/ v = Str(<<>>)
  \/ v = NaN
  \/ v = Num(0)

\* v == undefined : true of undefined and of null
LooseUndefined(v) == v = Undefined \/ v = Null

\* v !== undefined
StrictDefined(v) == v # Undefined

\* a + b on numbers
Plus(a, b) == IF a.nan \/ b.nan THEN NaN ELSE Num(a.val + b.val)

\* a - b on numbers
Minus(a, b) == IF a.nan \/ b.nan THEN NaN ELSE Num(a.val - b.val)

\* a * b on numbers
Times(a, b) == IF a.nan \/ b.nan THEN NaN ELSE Num(a.val * b.val)

\* s.substr(start) for 0 <= start
substr(s, start) == SubSeq(s, start + 1, Len(s))

DecDigits == {"0", "1", "2", "3", "4", "5", "6", "7", "8", "9"}

HexDigits == DecDigits \cup {"a", "b", "c", "d", "e", "f", "A", "B", "C", "D", "E", "F"}

DigitVal(c) ==
  CASE c = "0" -> 0 [] c = "1" -> 1 [] c = "2" -> 2 [] c = "3" -> 3
    [] c = "4" -> 4 [] c = "5" -> 5 [] c = "6" -> 6 [] c = "7" -> 7
    [] c = "8" -> 8 [] c = "9" -> 9
    [] c \in {"a", "A"} -> 10 [] c \in {"b", "B"} -> 11
    [] c \in {"c", "C"} -> 12 [] c \in {"d", "D"} -> 13
    [] c \in {"e", "E"} -> 14 [] c \in {"f", "F"} -> 15

RECURSIVE TrimLeft(_)
TrimLeft(s) == IF Len(s) > 0 /\ s[1] = " " THEN TrimLeft(Tail(s)) ELSE s

\* value of the longest prefix of s made of digits of the radix, continuing
\* from acc; seen tells whether a digit has been read
RECURSIVE ParseDigits(_, _, _, _)
ParseDigits(s, digits, radix, st) ==
  IF Len(s) > 0 /\ s[1] \in digits
    THEN ParseDigits(Tail(s), digits, radix,
                     [seen |-> TRUE, acc |-> st.acc * radix + DigitVal(s[1])])
    ELSE st

\* parseInt(s) of a string s with no radix argument
parseInt(s) ==
  LET t    == TrimLeft(s)
      neg  == Len(t) > 0 /\ t[1] = "-"
      u    == IF Len(t) > 0 /\ t[1] \in {"-", "+"} THEN Tail(t) ELSE t
      hex  == Len(u) >= 2 /\ u[1] = "0" /\ u[2] \in {"x", "X"}
      body == IF hex THEN substr(u, 2) ELSE u
      r    == ParseDigits(body, IF hex THEN HexDigits ELSE DecDigits,
                          IF hex THEN 16 ELSE 10, [seen |-> FALSE, acc |-> 0])
  IN  IF ~r.seen THEN NaN
      ELSE IF neg THEN Num(0 - r.acc) ELSE Num(r.acc)

----------------------------------------------------------------------------
(* class Throw                                                             *)

SlotNames == <<"one", "two", "three">>

Throw(id, d1, d2, d3, total, currentScore) ==
  [id           |-> id,
   darts        |-> [one |-> d1, two |-> d2, three |-> d3],
   total        |-> total,
   currentScore |-> currentScore]

\* getDartValueFromID with the break of case "d" missing (falls into "t")
getDartValueFromID_fall(id) ==
  IF Falsy(id) THEN Num(0)
  ELSE IF id = Str(<<"B", "u", "l", "l">>) THEN Num(50)
  ELSE IF id = Str(<<"O", "u", "t", "e", "r">>) THEN Num(25)
  ELSE LET c   == id.chars[1]
           mod == CASE c = "s" -> 1
                    [] c = "d" -> 3
                    [] c = "t" -> 3
                    [] OTHER   -> 1
       IN  Times(Num(mod), parseInt(substr(id.chars, 1)))

getDartValueFromID(id) ==
  IF Falsy(id) THEN Num(0)
  ELSE IF id = Str(<<"B", "u", "l", "l">>) THEN Num(50)
  ELSE IF id = Str(<<"O", "u", "t", "e", "r">>) THEN Num(25)
  ELSE LET c   == id.chars[1]
           mod == CASE c = "s" -> 1
                    [] c = "d" -> 2
                    [] c = "t" -> 3
                    [] OTHER   -> 1
       IN  Times(Num(mod), parseInt(substr(id.chars, 1)))

\* calculateTotal leaving the third dart out of the sum
calculateTotal_noThird(t) ==
  LET v(k) == getDartValueFromID(t.darts[SlotNames[k]])
  IN  [t EXCEPT !.total = Plus(Plus(Num(0), v(1)), v(2))]

calculateTotal(t) ==
  LET v(k) == getDartValueFromID(t.darts[SlotNames[k]])
  IN  [t EXCEPT !.total = Plus(Plus(Plus(Num(0), v(1)), v(2)), v(3))]

\* calculateCurrentScore subtracting the Throw's total instead of the dart
calculateCurrentScore_total(t, prevCurrentScore, id) ==
  [t EXCEPT !.currentScore = Minus(prevCurrentScore, t.total)]

\* calculateCurrentScore subtracting from the starting score
calculateCurrentScore_fromStart(t, prevCurrentScore, id) ==
  [t EXCEPT !.currentScore = Minus(Num(501), getDartValueFromID(id))]

calculateCurrentScore(t, prevCurrentScore, id) ==
  [t EXCEPT !.currentScore = Minus(prevCurrentScore, getDartValueFromID(id))]

\* isThrowComplete looking at the second dart
isThrowComplete_two(t) == StrictDefined(t.darts.two)

isThrowComplete(t) == StrictDefined(t.darts.three)

\* step [1] of Throw.addDart with its three tests in the opposite order
NextDart_reversed(t) ==
  IF LooseUndefined(t.darts.three) THEN "three"
  ELSE IF LooseUndefined(t.darts.two) THEN "two"
  ELSE IF LooseUndefined(t.darts.one) THEN "one"
  ELSE ""

\* the property name chosen by step [1] of Throw.addDart
NextDart(t) ==
  IF LooseUndefined(t.darts.one) THEN "one"
  ELSE IF LooseUndefined(t.darts.two) THEN "two"
  ELSE IF LooseUndefined(t.darts.three) THEN "three"
  ELSE ""

Throw_addDart(t, id, currentScore) ==
  LET dart == NextDart(t)
      d    == [k \in DOMAIN t.darts \cup {dart} |->
                 IF k = dart THEN id ELSE t.darts[k]]
  IN  calculateCurrentScore(calculateTotal([t EXCEPT !.darts = d]),
                            currentScore, id)

----------------------------------------------------------------------------
(* class Player                                                            *)

StartScore == 501

Player(id) ==
  [id           |-> Num(id),
   currentScore |-> Num(StartScore),
   throws       |-> <<Throw(Str(<<"-">>), Str(<<"-">>), Str(<<"-">>),
                            Str(<<"-">>), Str(<<"-">>), Num(StartScore))>>]

currentThrow(p) == p.throws[Len(p.throws)]

\* Player.addDart also lowering the Player's own score
Player_addDart_scored(p, id) ==
  LET q == IF isThrowComplete(currentThrow(p))
             THEN [p EXCEPT !.throws =
                     Append(@, Throw(Num(Len(p.throws)), Undefined, Undefined,
                                     Undefined, Undefined, Undefined))]
             ELSE p
      t == Throw_addDart(currentThrow(q), id, q.currentScore)
  IN  [q EXCEPT !.throws[Len(q.throws)] = t, !.currentScore = t.currentScore]

\* Player.addDart starting a new Throw when the current one has a second dart
Player_addDart_early(p, id) ==
  LET q == IF StrictDefined(currentThrow(p).darts.two)
             THEN [p EXCEPT !.throws =
                     Append(@, Throw(Num(Len(p.throws)), Undefined, Undefined,
                                     Undefined, Undefined, Undefined))]
             ELSE p
  IN  [q EXCEPT !.throws[Len(q.throws)] =
         Throw_addDart(currentThrow(q), id, q.currentScore)]

\* Player.addDart numbering the new Throw from the index of the last element
Player_addDart_zeroBased(p, id) ==
  LET q == IF isThrowComplete(currentThrow(p))
             THEN [p EXCEPT !.throws =
                     Append(@, Throw(Num(Len(p.throws) - 1), Undefined,
                                     Undefined, Undefined, Undefined, Undefined))]
             ELSE p
  IN  [q EXCEPT !.throws[Len(q.throws)] =
         Throw_addDart(currentThrow(q), id, q.currentScore)]

Player_addDart(p, id) ==
  LET q == IF isThrowComplete(currentThrow(p))
             THEN [p EXCEPT !.throws =
                     Append(@, Throw(Num(Len(p.throws)), Undefined, Undefined,
                                     Undefined, Undefined, Undefined))]
             ELSE p
  IN  [q EXCEPT !.throws[Len(q.throws)] =
         Throw_addDart(currentThrow(q), id, q.currentScore)]

----------------------------------------------------------------------------
(* class Game                                                              *)

Game ==
  [player        |-> [one |-> Player(1), two |-> Player(2)],
   currentPlayer |-> "one"]

\* switchPlayers comparing the Player's id with the string "1"
switchPlayers_string(g) ==
  [g EXCEPT !.currentPlayer =
     IF g.player[g.currentPlayer].id = Str(<<"1">>) THEN "two" ELSE "one"]

switchPlayers(g) ==
  [g EXCEPT !.currentPlayer =
     IF g.player[g.currentPlayer].id = Num(1) THEN "two" ELSE "one"]

\* Game.addDart switching Players before it stores the score (steps [3], [2])
Game_addDart_switchFirst(g, id) ==
  LET cp == g.currentPlayer
      g1 == [g EXCEPT !.player[cp] = Player_addDart(@, id)]
      g2 == IF isThrowComplete(currentThrow(g1.player[cp]))
              THEN switchPlayers(g1)
              ELSE g1
      np == g2.currentPlayer
      t2 == calculateCurrentScore(currentThrow(g2.player[np]),
                                  g2.player[np].currentScore, id)
  IN  [g2 EXCEPT !.player[np].throws[Len(g2.player[np].throws)] = t2,
                 !.player[np].currentScore = t2.currentScore]

Game_addDart(g, id) ==
  LET cp == g.currentPlayer
      g1 == [g EXCEPT !.player[cp] = Player_addDart(@, id)]
      t2 == calculateCurrentScore(currentThrow(g1.player[cp]),
                                  g1.player[cp].currentScore, id)
      g2 == [g1 EXCEPT !.player[cp].throws[Len(g1.player[cp].throws)] = t2,
                       !.player[cp].currentScore = t2.currentScore]
  IN  IF isThrowComplete(currentThrow(g2.player[cp]))
        THEN switchPlayers(g2)
        ELSE g2

----------------------------------------------------------------------------
(* Inputs and bounds                                                       *)

Undef == Undefined
Empty == Str(<<>>)
Bull  == Str(<<"B", "u", "l", "l">>)
Outer == Str(<<"O", "u", "t", "e", "r">>)
T20   == Str(<<"t", "2", "0">>)
D20   == Str(<<"d", "2", "0">>)
S1    == Str(<<"s", "1">>)
S5    == Str(<<"s", "5">>)
T7    == Str(<<"t", "7">>)
X5    == Str(<<"x", "5">>)
SX    == Str(<<"s", "x">>)
SM5   == Str(<<"s", "-", "5">>)

\* identifiers passed to Game.addDart
Ids == {Undef, Empty, Bull, Outer, T20, S5, SX}

\* identifiers passed to Throw.addDart on a Throw of its own
ThrowIds == {Undef, Empty, Bull, Outer, T20, D20, S1, X5, SX}

\* scores passed to Throw.addDart on a Throw of its own
ThrowScores == {Num(StartScore), Num(40)}

\* ids of the dartboard sections clicked in the controller
BoardIds == {T20, T7}

\* identifiers passed to Game.addDart in the longer games
DeepIds == {Undef, T20, SM5, SX}

MaxCalls == 6

MaxDeepCalls == 9

MaxThrowCalls == 4

MaxClicks == 16

----------------------------------------------------------------------------
(* Specifications                                                          *)

game == [player |-> player, currentPlayer |-> currentPlayer]

Init ==
  /\ player = Game.player
  /\ currentPlayer = Game.currentPlayer
  /\ listening = TRUE
  /\ calls = 0
  /\ turnCalls = 0
  /\ thrw = Throw(Num(1), Undefined, Undefined, Undefined, Undefined, Undefined)
  /\ thrwCalls = 0
  /\ lastId = Undefined

\* one call of Game.addDart(id)
AddDart(id) ==
  \E g \in {Game_addDart(game, id)} :
      /\ player' = g.player
      /\ currentPlayer' = g.currentPlayer
      /\ calls' = calls + 1
      /\ turnCalls' = IF g.currentPlayer = currentPlayer THEN turnCalls + 1 ELSE 0
      /\ lastId' = id
      /\ UNCHANGED <<listening, thrw, thrwCalls>>

Next == \E id \in Ids : calls < MaxCalls /\ AddDart(id)

Spec == Init /\ [][Next]_vars

NextDeep == \E id \in DeepIds : calls < MaxDeepCalls /\ AddDart(id)

\* Game.addDart called more often, with fewer identifiers
SpecDeep == Init /\ [][NextDeep]_vars

\* one call of addDart(id, currentScore) on a Throw held on its own
ThrowAddDart(id, score) ==
  /\ thrw' = Throw_addDart(thrw, id, score)
  /\ thrwCalls' = thrwCalls + 1
  /\ lastId' = id
  /\ UNCHANGED <<player, currentPlayer, listening, calls, turnCalls>>

NextThrow ==
  \E id \in ThrowIds, score \in ThrowScores :
    thrwCalls < MaxThrowCalls /\ ThrowAddDart(id, score)

SpecThrow == Init /\ [][NextThrow]_vars

\* boardClickHandler looking at player two's score only
boardClickHandler_two(id) ==
  \E g \in {Game_addDart(game, id)} :
      /\ listening
      /\ player' = g.player
      /\ currentPlayer' = g.currentPlayer
      /\ listening' = ~(g.player.two.currentScore = Num(0))
      /\ calls' = calls + 1
      /\ turnCalls' = IF g.currentPlayer = currentPlayer THEN turnCalls + 1 ELSE 0
      /\ lastId' = id
      /\ UNCHANGED <<thrw, thrwCalls>>

\* $scope.boardClickHandler for a click on the section with the given id,
\* delivered only while the listeners are attached
boardClickHandler(id) ==
  \E g \in {Game_addDart(game, id)} :
      /\ listening
      /\ player' = g.player
      /\ currentPlayer' = g.currentPlayer
      /\ listening' = ~(\/ g.player.one.currentScore = Num(0)
                        \/ g.player.two.currentScore = Num(0))
      /\ calls' = calls + 1
      /\ turnCalls' = IF g.currentPlayer = currentPlayer THEN turnCalls + 1 ELSE 0
      /\ lastId' = id
      /\ UNCHANGED <<thrw, thrwCalls>>

NextCtl == \E id \in BoardIds : calls < MaxClicks /\ boardClickHandler(id)

SpecCtl == Init /\ [][NextCtl]_vars

----------------------------------------------------------------------------
(* Vocabulary of the properties                                            *)

Players == {"one", "two"}

\* a dart slot that Throw.addDart does not take for empty
Filled(v) == ~LooseUndefined(v)

\* the sum of the dart values over the filled slots one, two, three
SlotSum(t) ==
  LET w(k) == IF Filled(t.darts[SlotNames[k]])
                THEN getDartValueFromID(t.darts[SlotNames[k]])
                ELSE Num(0)
  IN  Plus(Plus(w(1), w(2)), w(3))

DigitChars == <<"0", "1", "2", "3", "4", "5", "6", "7", "8", "9">>

\* the decimal numeral of n in 0..99
Dec(n) ==
  IF n < 10 THEN <<DigitChars[n + 1]>>
  ELSE <<DigitChars[(n \div 10) + 1], DigitChars[(n % 10) + 1]>>

\* the identifier <ring><number>
Code(ring, n) == Str(<<ring>> \o Dec(n))

RingChars == {"s", "d", "t", "x", "S", "-", "7"}

Multiplier(ring) ==
  CASE ring = "s" -> 1 [] ring = "d" -> 2 [] ring = "t" -> 3 [] OTHER -> 1

\* the darts of Throw t are exactly a, b, c
HasDarts(t, a, b, c) ==
  t.darts.one = a /\ t.darts.two = b /\ t.darts.three = c

----------------------------------------------------------------------------
(* C1 *)

\* the first k calls of a fresh Game were all "t20"
FedT20(k) ==
  /\ calls = k
  /\ k > 0 => /\ Len(player.one.throws) = 2
              /\ \A j \in 1..k : player.one.throws[2].darts[SlotNames[j]] = T20

\* C1: one call Game.addDart(id) lowers the score of the player who was
\* current before the call by exactly the value of id, once, and leaves that
\* player's currentScore equal to the currentScore of their current Throw; a
\* fresh Game fed "t20" three times takes player one through 501, 441, 381,
\* 321.
C1_ScoreLoweredOnce ==
  [][calls' = calls + 1 =>
       LET cp == currentPlayer
           id == lastId'
       IN  /\ player'[cp].currentScore =
                Minus(player[cp].currentScore, getDartValueFromID(id))
           /\ player'[cp].currentScore = currentThrow(player'[cp]).currentScore
           /\ FedT20(0) => player.one.currentScore = Num(501)
           /\ FedT20(0) /\ id = T20 => player'.one.currentScore = Num(441)
           /\ FedT20(1) /\ id = T20 => player'.one.currentScore = Num(381)
           /\ FedT20(2) /\ id = T20 => player'.one.currentScore = Num(321)]_vars

C1_Witness ==
  /\ FedT20(3)
  /\ player.one.currentScore = Num(321)
  /\ currentThrow(player.one).currentScore = Num(321)

----------------------------------------------------------------------------
(* C2 *)

\* C2: counting the Game.addDart calls since the Game was created or the turn
\* last switched, currentPlayer is unchanged by the first and by the second
\* call and toggles on the third, for every identifier including "" and
\* undefined.
C2_ToggleOnThird ==
  [][/\ turnCalls \in {0, 1} => currentPlayer' = currentPlayer
     /\ turnCalls = 2 => currentPlayer' # currentPlayer]_vars

----------------------------------------------------------------------------
(* C3 *)

\* C3: getDartValueFromID returns 50 for "Bull", 25 for "Outer", 0 for "" and
\* for undefined, and for <ring><number> with number in 1..20 the number
\* times 1 (ring s), 2 (ring d), 3 (ring t) or 1 (any other first character);
\* the total of a Throw holding one such dart is that value.
C3_ValueOf ==
  /\ getDartValueFromID(Bull) = Num(50)
  /\ getDartValueFromID(Outer) = Num(25)
  /\ getDartValueFromID(Empty) = Num(0)
  /\ getDartValueFromID(Undef) = Num(0)
  /\ getDartValueFromID(T20) = Num(60)
  /\ getDartValueFromID(D20) = Num(40)
  /\ getDartValueFromID(S1) = Num(1)
  /\ \A ring \in RingChars, n \in 1..20 :
       getDartValueFromID(Code(ring, n)) = Num(Multiplier(ring) * n)
  /\ \A ring \in RingChars, n \in 1..20 :
       thrwCalls = 1 /\ thrw.darts.one = Code(ring, n)
         => thrw.total = Num(Multiplier(ring) * n)

C3_Witness ==
  /\ thrwCalls = 1
  /\ thrw.darts.one = D20
  /\ thrw.total = Num(40)

----------------------------------------------------------------------------
(* C4 *)

\* C4: a newly created Throw is not complete after zero, one and two addDart
\* calls and is complete after the third, for every identifier including ""
\* and undefined.
C4_CompleteOnThird ==
  /\ thrwCalls \in {0, 1, 2} => ~isThrowComplete(thrw)
  /\ thrwCalls = 3 => isThrowComplete(thrw)

----------------------------------------------------------------------------
(* C5 *)

\* C5 as stated: every Throw of every player, the placeholder included, has
\* total equal to the sum of the dart values over its filled slots.
C5_TotalOfEveryThrow ==
  \A p \in Players : \A i \in 1..Len(player[p].throws) :
    player[p].throws[i].total = SlotSum(player[p].throws[i])

\* C5 amended: every Throw of every player other than the placeholder has
\* total equal to the sum of the dart values over its filled slots, unfilled
\* slots contributing 0; "Bull","Outer","s5" total 80 and three "t20" 180.
C5_TotalOfThrows ==
  \A p \in Players : \A i \in 2..Len(player[p].throws) :
    LET t == player[p].throws[i]
    IN  /\ t.total = SlotSum(t)
        /\ HasDarts(t, Bull, Outer, S5) => t.total = Num(80)
        /\ HasDarts(t, T20, T20, T20) => t.total = Num(180)

C5_Witness ==
  /\ Len(player.one.throws) = 2
  /\ HasDarts(player.one.throws[2], Bull, Outer, S5)
  /\ player.one.throws[2].total = Num(80)
  /\ Len(player.two.throws) = 2
  /\ HasDarts(player.two.throws[2], T20, Undefined, Undefined)
  /\ player.two.throws[2].total = Num(60)

----------------------------------------------------------------------------
(* C6 *)

\* C6: Player.addDart grows the throw sequence by exactly 1 when the current
\* Throw is complete before the call and leaves its length unchanged
\* otherwise; the first dart of a player grows the sequence from 1 to 2.
C6_ThrowsLength ==
  [][calls' = calls + 1 =>
       LET before == player[currentPlayer].throws
           after  == player'[currentPlayer].throws
       IN  /\ isThrowComplete(before[Len(before)])
                => Len(after) = Len(before) + 1
           /\ ~isThrowComplete(before[Len(before)])
                => Len(after) = Len(before)
           /\ Len(before) = 1 => Len(after) = 2]_vars

C6_Witness ==
  /\ Len(player.one.throws) = 2
  /\ Len(player.two.throws) = 2
  /\ ~isThrowComplete(currentThrow(player.two))
  /\ Filled(currentThrow(player.two).darts.two)

----------------------------------------------------------------------------
(* C7 *)

NoWinner ==
  /\ player.one.currentScore # Num(0)
  /\ player.two.currentScore # Num(0)

\* C7: after a board click is handled the listeners stay attached iff neither
\* player's currentScore equals 0; once a score is 0 the listeners are
\* removed, Game.addDart is not called again, and scores, throw sequences and
\* currentPlayer do not change any more.
C7_ListenersUntilWin ==
  [][/\ calls' = calls + 1 => (listening' <=> NoWinner')
     /\ ~NoWinner' => ~listening'
     /\ ~NoWinner => UNCHANGED <<player, currentPlayer, calls>>]_vars

C7_Witness ==
  /\ ~listening
  /\ player.one.currentScore = Num(0)
  /\ lastId = T7
  /\ player.two.currentScore # Num(0)

----------------------------------------------------------------------------
(* C8 *)

NonNumeric(s) == s = <<>> \/ \E i \in 1..Len(s) : s[i] \notin DecDigits

\* an identifier that is not "", "Bull" or "Outer" and whose part after the
\* first character is not a number
MalformedId(id) ==
  /\ id.type = "string"
  /\ id \notin {Empty, Bull, Outer}
  /\ NonNumeric(substr(id.chars, 1))

\* C8: for an identifier whose part after the first character is not numeric
\* the dart value is the integer 0, and Game.addDart with it leaves the
\* current player's score unchanged and the Throw total an ordinary integer.
C8_MalformedIsZero ==
  [][calls' = calls + 1 /\ MalformedId(lastId') =>
       LET cp == currentPlayer
       IN  /\ getDartValueFromID(lastId') = Num(0)
           /\ player'[cp].currentScore = player[cp].currentScore
           /\ ~player'[cp].currentScore.nan
           /\ ~currentThrow(player'[cp]).total.nan]_vars

----------------------------------------------------------------------------
(* C9 *)

\* every Throw after the placeholder holds the currentScore of the Throw
\* before it minus its own total, and the Player holds the currentScore of
\* the last Throw
ScoreChain(p) ==
  /\ \A i \in 2..Len(p.throws) :
       p.throws[i].currentScore =
         Minus(p.throws[i - 1].currentScore, p.throws[i].total)
  /\ p.currentScore = currentThrow(p).currentScore

\* C9: every non-placeholder Throw of a player has currentScore equal to the
\* player's score immediately before the Throw's first dart minus the
\* Throw's total, and each player's currentScore equals the currentScore of
\* their last Throw.
C9_ThrowScoreSnapshot ==
  [][/\ \A p \in Players : ScoreChain(player[p]) /\ ScoreChain(player'[p])
     /\ \A p \in Players :
          Len(player'[p].throws) = Len(player[p].throws) + 1 =>
            currentThrow(player'[p]).currentScore =
              Minus(player[p].currentScore, currentThrow(player'[p]).total)]_vars

C9_Witness ==
  /\ Len(player.two.throws) = 2
  /\ HasDarts(player.two.throws[2], Bull, T20, Undefined)
  /\ player.two.throws[2].currentScore = Num(391)
  /\ player.two.currentScore = Num(391)

----------------------------------------------------------------------------
(* C10 *)

InOrder(t) ==
  /\ Filled(t.darts.two) => Filled(t.darts.one)
  /\ Filled(t.darts.three) => Filled(t.darts.two)

\* the first of the slots one, two, three that is not filled
FirstUnfilled(t) ==
  CHOOSE k \in 1..3 :
    /\ ~Filled(t.darts[SlotNames[k]])
    /\ \A j \in 1..(k - 1) : Filled(t.darts[SlotNames[j]])

\* C10: slot two is filled only if slot one is and slot three only if slot
\* two is; an addDart call on an incomplete Throw writes exactly the first
\* unfilled slot; a filled slot is never changed by a later addDart.
C10_SlotsInOrder ==
  [][thrwCalls' = thrwCalls + 1 =>
       /\ InOrder(thrw) /\ InOrder(thrw')
       /\ \A k \in 1..3 :
            Filled(thrw.darts[SlotNames[k]])
              => thrw'.darts[SlotNames[k]] = thrw.darts[SlotNames[k]]
       /\ ~isThrowComplete(thrw) =>
            \A k \in 1..3 :
              thrw'.darts[SlotNames[k]] =
                IF k = FirstUnfilled(thrw) THEN lastId'
                ELSE thrw.darts[SlotNames[k]]]_vars

C10_Witness ==
  /\ thrwCalls = 3
  /\ HasDarts(thrw, T20, D20, S1)
  /\ isThrowComplete(thrw)

----------------------------------------------------------------------------
(* C11 *)

\* the Throw of player p that a Player.addDart call would hand the dart to
Receiving(p) ==
  IF isThrowComplete(currentThrow(p))
    THEN Throw(Num(Len(p.throws)), Undefined, Undefined, Undefined, Undefined,
               Undefined)
    ELSE currentThrow(p)

\* C11: Throw.addDart is never invoked on a Throw that is already complete, no
\* Throw receives a fourth dart (turnCalls counts the addDart calls the
\* current Throw has received), and no dart is written to a slot other than
\* one, two or three.
C11_NoFourthDart ==
  [][calls' = calls + 1 =>
       /\ ~isThrowComplete(Receiving(player[currentPlayer]))
       /\ turnCalls < 3
       /\ NextDart(Receiving(player[currentPlayer])) \in {"one", "two", "three"}
       /\ \A p \in Players : \A i \in 1..Len(player'[p].throws) :
            DOMAIN player'[p].throws[i].darts = {"one", "two", "three"}]_vars

----------------------------------------------------------------------------
(* C12 *)

\* C12: the Throw at position i >= 1 of a player's throw sequence (position 0
\* holds the placeholder with its sentinel id "-") has id i, so the ids of
\* one player are distinct and strictly increasing in insertion order.
\* Position i is element i + 1 of the sequence here.
C12_SequentialIds ==
  \A p \in Players :
    /\ player[p].throws[1].id = Str(<<"-">>)
    /\ \A i \in 1..(Len(player[p].throws) - 1) :
         player[p].throws[i + 1].id = Num(i)
    /\ \A i, j \in 1..(Len(player[p].throws) - 1) :
         i < j => player[p].throws[i + 1].id.val < player[p].throws[j + 1].id.val

C12_Witness ==
  /\ Len(player.one.throws) = 3
  /\ player.one.throws[2].id = Num(1)
  /\ player.one.throws[3].id = Num(2)
  /\ Len(player.two.throws) = 2

----------------------------------------------------------------------------
(* C13 *)

\* C13: a new Game has player one current and both scores 501; currentPlayer
\* is always one of the two Players; switchPlayers moves to the other player,
\* applied twice it restores the current player, and it changes nothing
\* besides currentPlayer; Game.addDart leaves the turn or passes it to the
\* other player.
C13_TwoPlayerTurns ==
  [][/\ calls = 0 => /\ currentPlayer = "one"
                     /\ player.one.currentScore = Num(501)
                     /\ player.two.currentScore = Num(501)
     /\ currentPlayer \in Players /\ currentPlayer' \in Players
     /\ player[currentPlayer].id = Num(IF currentPlayer = "one" THEN 1 ELSE 2)
     /\ switchPlayers(game).currentPlayer \in Players \ {currentPlayer}
     /\ switchPlayers(switchPlayers(game)) = game
     /\ switchPlayers(game).player = player
     /\ isThrowComplete(currentThrow(player'[currentPlayer]))
          => currentPlayer' \in Players \ {currentPlayer}]_vars

C13_Witness ==
  /\ calls = 6
  /\ turnCalls = 0
  /\ currentPlayer = "one"
  /\ isThrowComplete(currentThrow(player.two))
  /\ Len(player.two.throws) = 2

----------------------------------------------------------------------------
(* C14 *)

Other(p) == IF p = "one" THEN "two" ELSE "one"

\* C14: Game.addDart(id) changes only the player who was current before the
\* call: the other player's currentScore, throw sequence and every dart
\* slot, total and currentScore of their Throws are unchanged.
C14_OtherPlayerUnchanged ==
  [][calls' = calls + 1 =>
       LET other == Other(currentPlayer)
       IN  /\ player'[other] = player[other]
           /\ player'[other].currentScore = player[other].currentScore
           /\ player'[other].throws = player[other].throws]_vars

C14_Witness ==
  /\ currentPlayer = "one"
  /\ turnCalls = 0
  /\ Len(player.one.throws) = 2
  /\ Len(player.two.throws) = 2
  /\ HasDarts(player.one.throws[2], T20, T20, T20)
  /\ player.one.currentScore = Num(321)
  /\ HasDarts(player.two.throws[2], T20, SM5, T20)

----------------------------------------------------------------------------
(* C15 *)

\* C15: the player who is not current has a current Throw whose third slot is
\* filled (only the current player can have a Throw in progress), and the
\* length of player one's throw sequence minus that of player two's is 0 or
\* 1.
C15_OneThrowInProgress ==
  /\ StrictDefined(currentThrow(player[Other(currentPlayer)]).darts.three)
  /\ Len(player.one.throws) - Len(player.two.throws) \in {0, 1}

C15_Witness ==
  /\ currentPlayer = "one"
  /\ Len(player.one.throws) = 3
  /\ Len(player.two.throws) = 2
  /\ ~isThrowComplete(currentThrow(player.one))
  /\ Filled(currentThrow(player.one).darts.two)
  /\ isThrowComplete(currentThrow(player.two))

----------------------------------------------------------------------------
(* C16 *)

\* the sum of the totals of the Throws after the placeholder
SumTotals(throws) ==
  LET sum[i \in 1..Len(throws)] ==
        IF i = 1 THEN Num(0) ELSE Plus(sum[i - 1], throws[i].total)
  IN  sum[Len(throws)]

\* the sum of the dart values over all slots of the Throws after the
\* placeholder
SumDarts(throws) ==
  LET sum[i \in 1..Len(throws)] ==
        IF i = 1 THEN Num(0) ELSE Plus(sum[i - 1], SlotSum(throws[i]))
  IN  sum[Len(throws)]

\* b is a greater number than a
Greater(b, a) == ~a.nan /\ ~b.nan /\ b.val > a.val

ScoreIsStartMinusDarts(pl) ==
  \A p \in Players :
    /\ pl[p].currentScore = Minus(Num(StartScore), SumTotals(pl[p].throws))
    /\ pl[p].currentScore = Minus(Num(StartScore), SumDarts(pl[p].throws))

\* C16 as stated: each player's currentScore is 501 minus the sum of the
\* totals of that player's non-placeholder Throws, which is 501 minus the sum
\* of the values of the darts thrown, and no Game.addDart call increases a
\* score.
C16_ScoreNeverIncreases ==
  [][/\ ScoreIsStartMinusDarts(player) /\ ScoreIsStartMinusDarts(player')
     /\ \A p \in Players :
          ~Greater(player'[p].currentScore, player[p].currentScore)]_vars

\* C16 amended: the same, the score not increasing whenever the value of the
\* identifier passed is not a negative number.
C16_ScoreFromDarts ==
  [][/\ ScoreIsStartMinusDarts(player) /\ ScoreIsStartMinusDarts(player')
     /\ ~Greater(Num(0), getDartValueFromID(lastId')) =>
          \A p \in Players :
            ~Greater(player'[p].currentScore, player[p].currentScore)]_vars

C16_Witness ==
  /\ Len(player.one.throws) = 3
  /\ HasDarts(player.one.throws[2], T20, SM5, T20)
  /\ HasDarts(player.one.throws[3], T20, T20, T20)
  /\ player.one.currentScore = Num(206)
  /\ player.two.currentScore = Num(321)

====
